---- MODULE Spec2Model ----
\* Model of plecost_lib/libs/reporters.py: the report writers (Reporter,
\* ReporterJSON, ReporterXML) and the format dispatch get_reporter.
\*
\* Text is modelled as sequences of one-character strings where the code
\* inspects it character by character (file names); the other strings
\* (versions, CVE ids, ...) are opaque values.
EXTENDS Integers, Sequences, FiniteSets, TLC

\* info     the scan result the caller hands to generate
\* writers  the Reporter instances constructed so far, in order
\* fs       what each file holds
\* handles  the file handles that are open, in the order they were opened
\* last     the last call (or finalization) and its outcome
VARIABLES info, writers, fs, handles, last

vars == <<info, writers, fs, handles, last>>

\* ------------------------------------------------------------------------
\* Bounds of the model
\* ------------------------------------------------------------------------
\* a file name given to get_reporter is a concatenation of at most MaxParts parts
MaxParts == 3
\* number of plugin findings of a ScanResult
MaxPlugins == 2
\* number of entries of a plugin's cves, and of its exploits
MaxRefs == 2
\* number of writers constructed in one run
MaxWriters == 2
\* number of file handles left open at one time
MaxOpen == 1

\* ------------------------------------------------------------------------
\* Text helpers
\* ------------------------------------------------------------------------
None == "None"

Max(S) == CHOOSE x \in S : \A y \in S : y <= x

\* Python's p[a:b] with 0 <= a, on 1-based sequences: elements a+1 .. b
Slice(p, a, b) == SubSeq(p, a + 1, b)

\* str.rfind for a single character, 1-based; 0 when absent (Python: -1)
RFind(p, c) == Max({0} \cup {i \in 1..Len(p) : p[i] = c})

EXT_JSON == <<"j", "s", "o", "n">>
EXT_XML == <<"x", "m", "l">>
EXT_XML_UPPER == <<"X", "M", "L">>
EXT_JSON_MIXED == <<"J", "s", "o", "n">>
EXT_TXT == <<"t", "x", "t">>

NameParts == {<<"a">>, <<".">>, <<"/">>, EXT_JSON, EXT_XML, EXT_XML_UPPER,
              EXT_JSON_MIXED, EXT_TXT}

RECURSIVE Concats(_)
Concats(n) == IF n = 0 THEN {<<>>}
              ELSE LET S == Concats(n - 1)
                   IN S \cup {s \o p : s \in S, p \in NameParts}

\* the file names get_reporter is tried on
Filenames == Concats(MaxParts)

\* ------------------------------------------------------------------------
\* os.path.splitext (posixpath: sep "/", extsep ".")
\* ------------------------------------------------------------------------
\* the loop of genericpath._splitext that skips the leading dots of the last
\* path component
RECURSIVE splitext_loop(_, _, _)
splitext_loop(p, filenameIndex, dotIndex) ==
    IF filenameIndex < dotIndex
    THEN IF p[filenameIndex] # "."
         THEN <<Slice(p, 0, dotIndex - 1), Slice(p, dotIndex - 1, Len(p))>>
         ELSE splitext_loop(p, filenameIndex + 1, dotIndex)
    ELSE <<p, <<>>>>

\* a plausible slip: split at the last dot of the whole string
splitext_lastdot(p) ==
    LET dotIndex == RFind(p, ".")
    IN IF dotIndex > 0
       THEN <<Slice(p, 0, dotIndex - 1), Slice(p, dotIndex - 1, Len(p))>>
       ELSE <<p, <<>>>>

splitext(p) ==
    LET sepIndex == RFind(p, "/")
        dotIndex == RFind(p, ".")
    IN IF dotIndex > sepIndex
       THEN splitext_loop(p, sepIndex + 1, dotIndex)
       ELSE <<p, <<>>>>

\* ------------------------------------------------------------------------
\* get_reporter
\* ------------------------------------------------------------------------
reporters_swapped == (EXT_XML :> "ReporterJSON") @@ (EXT_JSON :> "ReporterXML")

reporters == (EXT_XML :> "ReporterXML") @@ (EXT_JSON :> "ReporterJSON")

\* the value get_reporter returns, or the exception it raises
get_reporter_result(filename) ==
    LET extension == Slice(splitext(filename)[2], 1, Len(splitext(filename)[2]))
    IN IF extension \in DOMAIN reporters
       THEN [ret |-> reporters[extension], exc |-> None, msg |-> None]
       ELSE [ret |-> None, exc |-> "PlecostInvalidReportFormat",
             msg |-> <<"Report format '", extension, "' not found.">>]

NoCall == [op |-> "none"]

get_reporter(filename) ==
    /\ last' = [op |-> "get_reporter", arg |-> filename]
                 @@ get_reporter_result(filename)
    /\ UNCHANGED <<info, writers, fs, handles>>

\* ------------------------------------------------------------------------
\* The scan result handed to the writers (PlecostResults and its parts)
\* ------------------------------------------------------------------------
CveIds == {"CVE-2020-1", "CVE-2020-2"}
ExploitIds == {"exploit-A", "exploit-B"}

\* a plugin finding; is_outdated is set where the finding is built
PluginFinding(name, current, latest, uri, cves, exploits) ==
    [plugin_name |-> name, current_version |-> current,
     latest_version |-> latest, plugin_uri |-> uri,
     is_outdated |-> (current # latest),
     cves |-> cves, exploits |-> exploits]

\* the sequences over S of length n
RECURSIVE SeqsOfLen(_, _)
SeqsOfLen(S, n) == IF n = 0 THEN {<<>>}
                   ELSE {Append(s, x) : s \in SeqsOfLen(S, n - 1), x \in S}

\* the findings that carry k references (CVE ids and exploits together)
FindingsWithRefs(k) ==
    UNION {{PluginFinding("akismet", "3.1", "3.1", "http://x/akismet", c, e),
            PluginFinding("jetpack", "1.0", "2.0", "http://x/jetpack", c, e)} :
           <<c, e>> \in UNION {SeqsOfLen(CveIds, j) \X SeqsOfLen(ExploitIds, k - j) :
                               j \in 0..k}}

\* the plugin lists of at most n findings and at most b references in all
RECURSIVE PluginLists(_, _)
PluginLists(n, b) ==
    IF n = 0 THEN {<<>>}
    ELSE {<<>>} \cup
         UNION {{<<f>> \o rest : f \in FindingsWithRefs(k),
                                 rest \in PluginLists(n - 1, b - k)} : k \in 0..b}

T0 == [Y |-> 2015, m |-> 3, d |-> 14, H |-> 9, M |-> 26, S |-> 53]
T1 == [Y |-> 2015, m |-> 3, d |-> 14, H |-> 10, M |-> 2, S |-> 7]

ScanResult(plugins) ==
    [target |-> "http://example.com", start_time |-> T0, end_time |-> T1,
     wordpress_info |-> [current_version |-> "4.1", latest_version |-> "4.7.3"],
     plugins |-> plugins]

ScanResults == {ScanResult(ps) : ps \in PluginLists(MaxPlugins, MaxRefs)}

\* datetime.strftime("%H-%m-%Y %H:%M:%S"): the fields in the order of the
\* directives, the literal text between them
strftime(t) == <<t.H, "-", t.m, "-", t.Y, " ", t.H, ":", t.M, ":", t.S>>

\* ------------------------------------------------------------------------
\* ReporterJSON.generate: the mapping handed to json.dump
\* ------------------------------------------------------------------------
YesNo(b) == IF b THEN "Yes" ELSE "No"

\* a plausible slip: the exploits copied only when the plugin has CVEs
json_plugin_exploits_gated(plugin) ==
    [plugin_name |-> plugin.plugin_name,
     current_version |-> plugin.current_version,
     last_version |-> plugin.latest_version,
     url |-> plugin.plugin_uri,
     outdated |-> YesNo(plugin.is_outdated),
     cves |-> [i \in 1..Len(plugin.cves) |-> plugin.cves[i]],
     exploits |-> IF plugin.cves # <<>>
                  THEN [i \in 1..Len(plugin.exploits) |-> plugin.exploits[i]]
                  ELSE <<>>]

\* a plausible slip: the two branches of the conditional exchanged
json_plugin_outdated_inverted(plugin) ==
    [plugin_name |-> plugin.plugin_name,
     current_version |-> plugin.current_version,
     last_version |-> plugin.latest_version,
     url |-> plugin.plugin_uri,
     outdated |-> YesNo(~plugin.is_outdated),
     cves |-> [i \in 1..Len(plugin.cves) |-> plugin.cves[i]],
     exploits |-> [i \in 1..Len(plugin.exploits) |-> plugin.exploits[i]]]

json_plugin(plugin) ==
    [plugin_name |-> plugin.plugin_name,
     current_version |-> plugin.current_version,
     last_version |-> plugin.latest_version,
     url |-> plugin.plugin_uri,
     outdated |-> YesNo(plugin.is_outdated),
     cves |-> [i \in 1..Len(plugin.cves) |-> plugin.cves[i]],
     exploits |-> [i \in 1..Len(plugin.exploits) |-> plugin.exploits[i]]]

\* a plausible slip: each plugin put at the front of the list (insert(0, ...))
js_info_reversed(result) ==
    [target |-> result.target,
     start_time |-> strftime(result.start_time),
     end_time |-> strftime(result.end_time),
     wordpress |-> [current_version |-> result.wordpress_info.current_version,
                    last_version |-> result.wordpress_info.latest_version],
     plugins |-> [i \in 1..Len(result.plugins) |->
                     json_plugin(result.plugins[Len(result.plugins) + 1 - i])]]

js_info(result) ==
    [target |-> result.target,
     start_time |-> strftime(result.start_time),
     end_time |-> strftime(result.end_time),
     wordpress |-> [current_version |-> result.wordpress_info.current_version,
                    last_version |-> result.wordpress_info.latest_version],
     plugins |-> [i \in 1..Len(result.plugins) |-> json_plugin(result.plugins[i])]]

\* ------------------------------------------------------------------------
\* ReporterXML.generate: the element tree handed to ElementTree.write
\* ------------------------------------------------------------------------
\* ET.Element / ET.SubElement: tag, text, attributes (name-value pairs), children
Element(tag, text, attrib, children) ==
    [tag |-> tag, text |-> text, attrib |-> attrib, children |-> children]

xml_cves(plugin) ==
    IF plugin.cves # <<>>
    THEN <<Element("cves", None, {},
                   [i \in 1..Len(plugin.cves) |->
                       Element("cve", plugin.cves[i], {}, <<>>)])>>
    ELSE <<>>

\* a plausible slip: the exploits block gated on the exploits themselves
xml_exploits_gated_on_exploits(plugin) ==
    IF plugin.exploits # <<>>
    THEN <<Element("exploits", None, {},
                   [i \in 1..Len(plugin.exploits) |->
                       Element("exploits", plugin.exploits[i], {}, <<>>)])>>
    ELSE <<>>

\* a plausible slip: each exploit child given the singular tag
xml_exploits_singular_tag(plugin) ==
    IF plugin.cves # <<>>
    THEN <<Element("exploits", None, {},
                   [i \in 1..Len(plugin.exploits) |->
                       Element("exploit", plugin.exploits[i], {}, <<>>)])>>
    ELSE <<>>

xml_exploits(plugin) ==
    IF plugin.cves # <<>>
    THEN <<Element("exploits", None, {},
                   [i \in 1..Len(plugin.exploits) |->
                       Element("exploits", plugin.exploits[i], {}, <<>>)])>>
    ELSE <<>>

xml_plugin(plugin) ==
    Element("plugin", plugin.plugin_name,
            {<<"current_version", plugin.current_version>>,
             <<"last_version", plugin.latest_version>>,
             <<"url", plugin.plugin_uri>>,
             <<"outdated", YesNo(plugin.is_outdated)>>},
            xml_cves(plugin) \o xml_exploits(plugin))

xml_root(result) ==
    Element("libs", None, {},
            <<Element("target", result.target, {}, <<>>),
              Element("start_time", strftime(result.start_time), {}, <<>>),
              Element("end_time", strftime(result.end_time), {}, <<>>),
              Element("wordpress", None,
                      {<<"current_version", result.wordpress_info.current_version>>,
                       <<"last_version", result.wordpress_info.latest_version>>},
                      <<>>),
              Element("plugins", None, {},
                      [i \in 1..Len(result.plugins) |->
                          xml_plugin(result.plugins[i])])>>)

\* ------------------------------------------------------------------------
\* Files, file handles and the values given to the constructors
\* ------------------------------------------------------------------------
OUT_JSON == <<"o", ".">> \o EXT_JSON
OUT_XML == <<"o", ".">> \o EXT_XML
NOTES == <<"n", "o", "t", "e", "s">>

\* the files of the model: two report files and one the writers are never given
Files == {OUT_JSON, OUT_XML, NOTES}

\* what a file holds
Absent == [kind |-> "absent"]
Old == [kind |-> "old"]
\* created or cut to a prefix of the text being written (possibly empty)
Truncated == [kind |-> "truncated"]
\* bytes of two writes over one another
Garbled == [kind |-> "garbled"]
\* the text json.dump / ElementTree.write produce, kept as the mapping / the
\* tree it encodes
JsonFile(doc) == [kind |-> "json", doc |-> doc]
XmlFile(root) == [kind |-> "xml", root |-> root]

\* a Python value: its type and, for a string, its characters
PyStr(chars) == [type |-> "str", val |-> chars]
PyInt42 == [type |-> "int", val |-> <<"4", "2">>]

CtorArgs == {PyStr(OUT_JSON), PyStr(OUT_XML), PyInt42}

ReporterClasses == {"ReporterJSON", "ReporterXML"}

\* what the operating system does with the open and the writes of one call
IoOutcomes == {"ok", "open_fails", "write_fails"}

\* the two scan results of the full life cycle
SampleResults ==
    {ScanResult(<<>>),
     ScanResult(<<PluginFinding("jetpack", "1.0", "2.0", "http://x/jetpack",
                                <<"CVE-2020-1">>, <<"exploit-A">>)>>)}

\* ------------------------------------------------------------------------
\* Reporter.__init__
\* ------------------------------------------------------------------------
\* a plausible slip: the type of the argument not checked
Reporter_init_unchecked(cls, output_filename) ==
    /\ Len(writers) < MaxWriters
    /\ writers' = Append(writers, [cls |-> cls,
                                   output_filename |-> output_filename.val])
    /\ last' = [op |-> "init", cls |-> cls, arg |-> output_filename,
                exc |-> None]
    /\ UNCHANGED <<info, fs, handles>>

Reporter_init(cls, output_filename) ==
    IF output_filename.type # "str"
    THEN /\ last' = [op |-> "init", cls |-> cls, arg |-> output_filename,
                     exc |-> "TypeError"]
         /\ UNCHANGED <<info, writers, fs, handles>>
    ELSE /\ Len(writers) < MaxWriters
         /\ writers' = Append(writers, [cls |-> cls,
                                        output_filename |-> output_filename.val])
         /\ last' = [op |-> "init", cls |-> cls, arg |-> output_filename,
                     exc |-> None]
         /\ UNCHANGED <<info, fs, handles>>

\* Reporter.output_filename
output_filename(self) == writers[self].output_filename

\* ------------------------------------------------------------------------
\* ReporterJSON.generate
\* ------------------------------------------------------------------------
\* json.dump(js_info, open(self.output_filename, "w")): the handle is never
\* closed by the code. It is closed when the file object is finalized: at once
\* where objects are reference counted and nothing else refers to it
\* (finalized), at some later collection otherwise; an exception raised by
\* json.dump refers to the handle through its traceback.
ReporterJSON_generate(self, result, io, finalized) ==
    LET file == output_filename(self)
        call == [op |-> "generate", cls |-> "ReporterJSON", self |-> self]
    IN /\ writers[self].cls = "ReporterJSON"
       /\ UNCHANGED <<info, writers>>
       /\ IF io = "open_fails"
          THEN /\ last' = call @@ [exc |-> "OSError", opened |-> 0, closed |-> 0]
               /\ UNCHANGED <<fs, handles>>
          ELSE IF io = "write_fails"
          THEN /\ Len(handles) < MaxOpen
               /\ fs' = [fs EXCEPT ![file] = Truncated]
               /\ handles' = Append(handles,
                                    [file |-> file,
                                     pending |-> JsonFile(js_info(result))])
               /\ last' = call @@ [exc |-> "OSError", opened |-> 1, closed |-> 0]
          ELSE IF finalized
          THEN /\ fs' = [fs EXCEPT ![file] = JsonFile(js_info(result))]
               /\ UNCHANGED handles
               /\ last' = call @@ [exc |-> None, opened |-> 1, closed |-> 1]
          ELSE /\ Len(handles) < MaxOpen
               /\ fs' = [fs EXCEPT ![file] = Truncated]
               /\ handles' = Append(handles,
                                    [file |-> file,
                                     pending |-> JsonFile(js_info(result))])
               /\ last' = call @@ [exc |-> None, opened |-> 1, closed |-> 0]

\* the finalizer of a file object left open: it flushes what the buffer still
\* holds into the file, from the handle's own position (the start), and closes
\* the handle; a flush that fails is ignored
Flush(content, pending) ==
    IF content \in {Truncated, pending} THEN pending ELSE Garbled

file_finalize(h, io) ==
    /\ h \in 1..Len(handles)
    /\ fs' = [fs EXCEPT ![handles[h].file] =
                 IF io = "ok" THEN Flush(@, handles[h].pending) ELSE @]
    /\ handles' = [i \in 1..(Len(handles) - 1) |->
                      IF i < h THEN handles[i] ELSE handles[i + 1]]
    /\ last' = [op |-> "finalize", file |-> handles[h].file]
    /\ UNCHANGED <<info, writers>>

\* ------------------------------------------------------------------------
\* ReporterXML.generate
\* ------------------------------------------------------------------------
\* tree.write(self.output_filename, encoding="UTF-8"): ElementTree opens the
\* named file itself and closes it when the write ends or fails
ReporterXML_generate(self, result, io) ==
    LET file == output_filename(self)
        call == [op |-> "generate", cls |-> "ReporterXML", self |-> self]
    IN /\ writers[self].cls = "ReporterXML"
       /\ UNCHANGED <<info, writers, handles>>
       /\ IF io = "open_fails"
          THEN /\ last' = call @@ [exc |-> "OSError", opened |-> 0, closed |-> 0]
               /\ UNCHANGED fs
          ELSE IF io = "write_fails"
          THEN /\ fs' = [fs EXCEPT ![file] = Truncated]
               /\ last' = call @@ [exc |-> "OSError", opened |-> 1, closed |-> 1]
          ELSE /\ fs' = [fs EXCEPT ![file] = XmlFile(xml_root(result))]
               /\ last' = call @@ [exc |-> None, opened |-> 1, closed |-> 1]

\* ------------------------------------------------------------------------
\* Specifications
\* ------------------------------------------------------------------------
\* the names the caller of the full life cycle asks get_reporter about
CallerNames == {OUT_JSON, OUT_XML, NOTES}

Init ==
    /\ info \in SampleResults
    /\ writers = <<>>
    /\ fs \in {[f \in Files |-> Absent], [f \in Files |-> Old]}
    /\ handles = <<>>
    /\ last = NoCall

GetReporter == \E f \in CallerNames : get_reporter(f)

Construct == \E cls \in ReporterClasses, a \in CtorArgs : Reporter_init(cls, a)

GenerateJSON ==
    \E self \in 1..Len(writers), io \in IoOutcomes, finalized \in BOOLEAN :
        ReporterJSON_generate(self, info, io, finalized)

GenerateXML ==
    \E self \in 1..Len(writers), io \in IoOutcomes :
        ReporterXML_generate(self, info, io)

Finalize ==
    \E h \in 1..Len(handles), io \in {"ok", "write_fails"} : file_finalize(h, io)

Next == GetReporter \/ Construct \/ GenerateJSON \/ GenerateXML \/ Finalize

\* the full life cycle: dispatch, construction, generation, finalization
Spec == Init /\ [][Next]_vars

\* rendering: one writer of each class, every scan result within the bounds
InitRender ==
    /\ info \in ScanResults
    /\ writers = <<[cls |-> "ReporterJSON", output_filename |-> OUT_JSON],
                   [cls |-> "ReporterXML", output_filename |-> OUT_XML]>>
    /\ fs = [f \in Files |-> Absent]
    /\ handles = <<>>
    /\ last = NoCall

NextRender == GenerateJSON \/ GenerateXML \/ Finalize

SpecRender == InitRender /\ [][NextRender]_vars

\* dispatch: the caller holds one file name within the bounds and asks
\* get_reporter about it
InitDispatch ==
    /\ info = ScanResult(<<>>)
    /\ writers = <<>>
    /\ fs = [f \in Files |-> Absent]
    /\ handles = <<>>
    /\ last \in {[op |-> "ask", arg |-> f] : f \in Filenames}

NextDispatch == last.op = "ask" /\ get_reporter(last.arg)

SpecDispatch == InitDispatch /\ [][NextDispatch]_vars

\* ========================================================================
\* Properties
\* ========================================================================
EndsWith(f, suffix) ==
    /\ Len(f) >= Len(suffix)
    /\ SubSeq(f, Len(f) - Len(suffix) + 1, Len(f)) = suffix

\* f without its last n characters
DropLast(f, n) == SubSeq(f, 1, Len(f) - n)

\* the text after the last c of f (all of f when it holds no c)
AfterLast(f, c) ==
    LET at == {i \in 1..Len(f) : f[i] = c /\ \A j \in (i + 1)..Len(f) : f[j] # c}
    IN IF at = {} THEN f ELSE LET i == CHOOSE i \in at : TRUE
                              IN SubSeq(f, i + 1, Len(f))

HasChar(f, c) == \E i \in 1..Len(f) : f[i] = c

\* the last path component of name holds a character other than "."
ProperStem(name) == \E i \in 1..Len(AfterLast(name, "/")) : AfterLast(name, "/")[i] # "."

DOT_JSON == <<".">> \o EXT_JSON
DOT_XML == <<".">> \o EXT_XML

Returned(cls) == last.ret = cls /\ last.exc = None
Unsupported == last.ret = None /\ last.exc = "PlecostInvalidReportFormat"

\* C1 (as stated): every file name ending in ".json" gives ReporterJSON, every
\* file name ending in ".xml" gives ReporterXML, and a file name with another
\* extension or with none fails with PlecostInvalidReportFormat and returns no
\* writer.
C1_AnyNameWithExtension ==
    last.op = "get_reporter" =>
        /\ EndsWith(last.arg, DOT_JSON) => Returned("ReporterJSON")
        /\ EndsWith(last.arg, DOT_XML) => Returned("ReporterXML")
        /\ AfterLast(last.arg, ".") \notin {EXT_JSON, EXT_XML} => Unsupported
        /\ ~HasChar(last.arg, ".") => Unsupported

\* C1 (amended): a file name "<name>.json" whose <name> has a last path
\* component holding a character other than "." gives ReporterJSON, and
\* likewise "<name>.xml" gives ReporterXML; a file name whose text after the
\* last "." is neither "json" nor "xml", or that holds no ".", fails with
\* PlecostInvalidReportFormat and returns no writer.
C1_ProperNameWithExtension ==
    last.op = "get_reporter" =>
        /\ (EndsWith(last.arg, DOT_JSON) /\ ProperStem(DropLast(last.arg, Len(DOT_JSON))))
               => Returned("ReporterJSON")
        /\ (EndsWith(last.arg, DOT_XML) /\ ProperStem(DropLast(last.arg, Len(DOT_XML))))
               => Returned("ReporterXML")
        /\ AfterLast(last.arg, ".") \notin {EXT_JSON, EXT_XML} => Unsupported
        /\ ~HasChar(last.arg, ".") => Unsupported

\* get_reporter was asked about "a.json" and returned ReporterJSON
C1_Witness ==
    /\ last.op = "get_reporter"
    /\ last.arg = <<"a">> \o DOT_JSON
    /\ Returned("ReporterJSON")

Message(extension) == <<"Report format '", extension, "' not found.">>

\* C9 (as stated): the writer is selected by the text after the last "." of the
\* file name, matched case-sensitively: "xml" gives ReporterXML, "json" gives
\* ReporterJSON (".json" and "a.b.xml" included), anything else fails with
\* PlecostInvalidReportFormat, the message carrying that text (or an empty
\* extension).
C9_TextAfterLastDot ==
    last.op = "get_reporter" =>
        LET e == IF HasChar(last.arg, ".") THEN AfterLast(last.arg, ".") ELSE <<>>
        IN /\ e = EXT_XML => Returned("ReporterXML")
           /\ e = EXT_JSON => Returned("ReporterJSON")
           /\ e \notin {EXT_XML, EXT_JSON} =>
                  (Unsupported /\ last.msg \in {Message(e), Message(<<>>)})

\* the extension as os.path.splitext defines it, stated on the last path
\* component: the text after its last ".", when a character other than "."
\* comes somewhere before that "."; empty otherwise
ComponentExtension(f) ==
    LET c == AfterLast(f, "/")
        stem == DropLast(c, Len(AfterLast(c, ".")) + 1)
    IN IF HasChar(c, ".") /\ (\E i \in 1..Len(stem) : stem[i] # ".")
       THEN AfterLast(c, ".")
       ELSE <<>>

\* C9 (amended): the writer is selected by the extension of the file name's
\* last path component (the text after its last ".", provided a character
\* other than "." comes before that "."; empty otherwise), matched
\* case-sensitively: "xml" gives ReporterXML, "json" gives ReporterJSON
\* ("a.b.xml" included, ".json" not), anything else ("report.XML",
\* "report.Json", "dir.xml/report", ".json") fails with
\* PlecostInvalidReportFormat, the message carrying that extension.
C9_ComponentExtension ==
    last.op = "get_reporter" =>
        LET e == ComponentExtension(last.arg)
        IN /\ e = EXT_XML => Returned("ReporterXML")
           /\ e = EXT_JSON => Returned("ReporterJSON")
           /\ e \notin {EXT_XML, EXT_JSON} => (Unsupported /\ last.msg = Message(e))

\* get_reporter was asked about ".json" and failed, naming an empty extension
C9_Witness ==
    /\ last.op = "get_reporter"
    /\ last.arg = DOT_JSON
    /\ Unsupported
    /\ last.msg = Message(<<>>)

\* ------------------------------------------------------------------------
\* What the writers emitted
\* ------------------------------------------------------------------------
\* the JSON documents and the XML trees the files hold
EmittedJson == {fs[f].doc : f \in {g \in Files : fs[g].kind = "json"}}
EmittedXml == {fs[f].root : f \in {g \in Files : fs[g].kind = "xml"}}

\* the children of an element that carry a tag
ChildrenTagged(element, tag) ==
    LET Tagged(c) == c.tag = tag
    IN SelectSeq(element.children, Tagged)

\* the plugin elements of a tree: the children of its plugins elements
PluginElements(root) ==
    IF Len(ChildrenTagged(root, "plugins")) = 1
    THEN ChildrenTagged(root, "plugins")[1].children
    ELSE <<>>

\* the children of e are exactly one element per entry of refs, in order, each
\* with the tag and the entry as its text
HoldsOnePer(e, tag, refs) ==
    /\ Len(e.children) = Len(refs)
    /\ \A j \in 1..Len(refs) :
           e.children[j].tag = tag /\ e.children[j].text = refs[j]

\* the plugins with CVEs and without exploits
CvesOnly == {i \in 1..Len(info.plugins) :
                info.plugins[i].cves # <<>> /\ info.plugins[i].exploits = <<>>}

\* C2 (as stated): for a plugin with CVEs and without exploits the XML writer
\* emits a cves child holding one cve element per CVE (text the CVE id, in
\* input order) and no exploits element.
C2_NoExploitsElement ==
    \A root \in EmittedXml : \A i \in CvesOnly :
        /\ i <= Len(PluginElements(root))
        /\ Len(ChildrenTagged(PluginElements(root)[i], "cves")) = 1
        /\ HoldsOnePer(ChildrenTagged(PluginElements(root)[i], "cves")[1], "cve",
                       info.plugins[i].cves)
        /\ ChildrenTagged(PluginElements(root)[i], "exploits") = <<>>

\* C2 (amended): for a plugin with CVEs and without exploits the XML writer
\* emits a cves child holding one cve element per CVE (text the CVE id, in
\* input order) and one exploits element that has no children.
C2_EmptyExploitsElement ==
    \A root \in EmittedXml : \A i \in CvesOnly :
        /\ i <= Len(PluginElements(root))
        /\ Len(ChildrenTagged(PluginElements(root)[i], "cves")) = 1
        /\ HoldsOnePer(ChildrenTagged(PluginElements(root)[i], "cves")[1], "cve",
                       info.plugins[i].cves)
        /\ Len(ChildrenTagged(PluginElements(root)[i], "exploits")) = 1
        /\ ChildrenTagged(PluginElements(root)[i], "exploits")[1].children = <<>>

\* an XML report was written for a plugin with two CVEs and no exploit
C2_Witness ==
    /\ EmittedXml # {}
    /\ \E i \in CvesOnly : Len(info.plugins[i].cves) = 2

\* C3: for a plugin without CVEs the XML writer emits neither a cves nor an
\* exploits child, whatever its exploits; an exploits child is present exactly
\* when the plugin has CVEs, and then holds one child tagged "exploits" per
\* exploit entry (text the entry, in input order).
C3_ExploitsGatedOnCves ==
    \A root \in EmittedXml : \A i \in 1..Len(info.plugins) :
        /\ i <= Len(PluginElements(root))
        /\ info.plugins[i].cves = <<>> =>
               /\ ChildrenTagged(PluginElements(root)[i], "cves") = <<>>
               /\ ChildrenTagged(PluginElements(root)[i], "exploits") = <<>>
        /\ info.plugins[i].cves # <<>> =>
               /\ Len(ChildrenTagged(PluginElements(root)[i], "exploits")) = 1
               /\ HoldsOnePer(ChildrenTagged(PluginElements(root)[i], "exploits")[1],
                              "exploits", info.plugins[i].exploits)

\* an XML report was written for a scan with a plugin that has an exploit and
\* no CVE, and with a plugin that has a CVE
C3_Witness ==
    /\ EmittedXml # {}
    /\ \E i \in 1..Len(info.plugins) :
           info.plugins[i].cves = <<>> /\ info.plugins[i].exploits # <<>>
    /\ \E i \in 1..Len(info.plugins) : info.plugins[i].cves # <<>>

\* C4: both writers emit one plugin entry per element of result.plugins, in the
\* order of the input, the i-th entry carrying the i-th finding's plugin_name,
\* versions and url; with no plugins the JSON plugins list and the XML plugins
\* element are empty.
C4_PluginsInOrder ==
    /\ \A doc \in EmittedJson :
           /\ Len(doc.plugins) = Len(info.plugins)
           /\ \A i \in 1..Len(info.plugins) :
                  /\ doc.plugins[i].plugin_name = info.plugins[i].plugin_name
                  /\ doc.plugins[i].current_version = info.plugins[i].current_version
                  /\ doc.plugins[i].last_version = info.plugins[i].latest_version
                  /\ doc.plugins[i].url = info.plugins[i].plugin_uri
    /\ \A root \in EmittedXml :
           /\ Len(ChildrenTagged(root, "plugins")) = 1
           /\ Len(PluginElements(root)) = Len(info.plugins)
           /\ \A i \in 1..Len(info.plugins) :
                  /\ PluginElements(root)[i].tag = "plugin"
                  /\ PluginElements(root)[i].text = info.plugins[i].plugin_name
                  /\ {<<"current_version", info.plugins[i].current_version>>,
                      <<"last_version", info.plugins[i].latest_version>>,
                      <<"url", info.plugins[i].plugin_uri>>}
                         \subseteq PluginElements(root)[i].attrib

\* both reports were written for a scan with two different plugins
C4_Witness ==
    /\ EmittedJson # {}
    /\ EmittedXml # {}
    /\ Len(info.plugins) = 2
    /\ info.plugins[1].plugin_name # info.plugins[2].plugin_name

\* C5: the JSON writer emits for every plugin a cves key and an exploits key
\* whose values are the plugin's cves and exploits, entry for entry and in
\* order, the empty list when the sequence is empty; the exploits do not depend
\* on the cves.
C5_JsonRefsAlwaysEmitted ==
    \A doc \in EmittedJson : \A i \in 1..Len(info.plugins) :
        /\ i <= Len(doc.plugins)
        /\ {"cves", "exploits"} \subseteq DOMAIN doc.plugins[i]
        /\ doc.plugins[i].cves = info.plugins[i].cves
        /\ doc.plugins[i].exploits = info.plugins[i].exploits

\* a JSON report was written for a plugin with two exploits and no CVE
C5_Witness ==
    /\ EmittedJson # {}
    /\ \E i \in 1..Len(info.plugins) :
           info.plugins[i].cves = <<>> /\ Len(info.plugins[i].exploits) = 2

Outdated(plugin) ==
    IF plugin.current_version # plugin.latest_version THEN "Yes" ELSE "No"

\* C6: the outdated field is "Yes" when the plugin's current_version differs
\* from its latest_version and "No" when they are equal, in the JSON report and
\* in the XML report alike.
C6_OutdatedYesNo ==
    /\ \A doc \in EmittedJson : \A i \in 1..Len(info.plugins) :
           /\ i <= Len(doc.plugins)
           /\ doc.plugins[i].outdated = Outdated(info.plugins[i])
    /\ \A root \in EmittedXml : \A i \in 1..Len(info.plugins) :
           /\ i <= Len(PluginElements(root))
           /\ {v \in {"Yes", "No"} : <<"outdated", v>> \in PluginElements(root)[i].attrib}
                  = {Outdated(info.plugins[i])}

\* both reports were written for a scan with an outdated plugin and an
\* up-to-date one
C6_Witness ==
    /\ EmittedJson # {}
    /\ EmittedXml # {}
    /\ \E i \in 1..Len(info.plugins) :
           info.plugins[i].current_version # info.plugins[i].latest_version
    /\ \E i \in 1..Len(info.plugins) :
           info.plugins[i].current_version = info.plugins[i].latest_version

\* ------------------------------------------------------------------------
\* Construction, file handles and frame
\* ------------------------------------------------------------------------
\* Every step that is not a stuttering step sets last, so a step that ends
\* with last.op = "init" is a step of Reporter.__init__, and likewise for
\* "generate" and "get_reporter".

\* C7: constructing a writer with an output_filename that is not a string
\* fails with TypeError and yields no writer and no file; constructing it with
\* a non-empty string succeeds; and the output_filename of a writer is that
\* string after every later step.
C7_Construction ==
    [][/\ (last'.op = "init" /\ last'.arg.type # "str") =>
              /\ last'.exc = "TypeError"
              /\ writers' = writers
              /\ fs' = fs
       /\ (last'.op = "init" /\ last'.arg.type = "str" /\ last'.arg.val # <<>>) =>
              /\ last'.exc = None
              /\ Len(writers') = Len(writers) + 1
              /\ writers'[Len(writers')].cls = last'.cls
              /\ writers'[Len(writers')].output_filename = last'.arg.val
              /\ fs' = fs
       /\ \A w \in 1..Len(writers) :
              /\ w <= Len(writers')
              /\ writers'[w].output_filename = writers[w].output_filename
      ]_vars

\* a construction failed with TypeError after two writers were constructed
\* and a report was written
C7_Witness ==
    /\ last.op = "init"
    /\ last.exc = "TypeError"
    /\ Len(writers) = MaxWriters
    /\ \E f \in Files : fs[f].kind \in {"json", "xml"}

\* C8: every call of generate opens the output file at most once and has closed
\* every handle it opened when it returns or raises.
C8_HandleReleased ==
    last.op = "generate" => (last.opened <= 1 /\ last.closed = last.opened)

\* C10: generate leaves the scan result and every file other than its
\* output_filename unchanged, and after a generate that returns the
\* output_filename holds the report of the scan result alone; get_reporter
\* constructs no writer and writes no file.
C10_Frame ==
    [][/\ last'.op = "generate" =>
              /\ info' = info
              /\ writers' = writers
              /\ \A f \in Files \ {writers[last'.self].output_filename} :
                     fs'[f] = fs[f]
              /\ last'.exc = None =>
                     fs'[writers[last'.self].output_filename] =
                         IF last'.cls = "ReporterJSON"
                         THEN JsonFile(js_info(info))
                         ELSE XmlFile(xml_root(info))
       /\ last'.op = "get_reporter" =>
              /\ writers' = writers
              /\ fs' = fs
              /\ handles' = handles
      ]_vars

====
